---- MODULE Spec2Model ----
(***************************************************************************)
(* Playback synchronisation, region management and session lifecycle of    *)
(* the multitrack video editor page (Uploader) and the waveform/trim page  *)
(* (VoiceUploader).  One page is mounted at a time.  Times are integers in *)
(* tenths of a second.  Every handler, timer callback and asynchronous     *)
(* continuation of the components is one action; a state change that makes *)
(* React re-run the [videoUrl, zoom] effect runs the previous effect's     *)
(* cleanup and the synchronous part of the next setup in the same action.  *)
(* A behaviour belongs to one scenario, which fixes the inputs the user    *)
(* and the engines offer in it; the handlers are the same in all of them.  *)
(***************************************************************************)
EXTENDS Integers, Sequences, FiniteSets, TLC

\* ---------------------------------------------------------------- bounds
MaxGen == 2            \* effect runs that set up an engine load
MaxRegions == 2        \* regions held at once, in the list and in the plugin
MaxClock == 2          \* distinct readings of Date.now()
MaxPendingResets == 1  \* deferred setVideoUrl(null) timers in flight
MaxTrims == 2          \* trimAudio invocations per behaviour
MaxFFmpegs == 2        \* FFmpeg instances created per behaviour
MaxEchoes == 2         \* volume notifications an engine has yet to deliver

\* ------------------------------------------------------- program constants
Null == 0                    \* null reference / null state value
DriftThreshold == 2          \* 0.2 s
DefaultRegionLength == 100   \* 10 s
TotalTracks == 3
SkipSeconds == 100           \* the skip buttons: -10 s / +10 s
MaxVideoSize == 320 * 1024 * 1024
MaxAudioSize == 50 * 1024 * 1024
VALID_AUDIO_TYPES == {"audio/mp3", "audio/mpeg", "audio/wav", "audio/ogg", "audio/m4a",
                      "audio/aac", "audio/webm"}
VALID_VIDEO_TYPES == {"video/mp4", "video/quicktime", "video/x-msvideo", "video/x-matroska"}

\* ------------------------------------------------------------ input sets
\* files the user may pick: type, size in bytes, media duration
ShortVideo == [type |-> "video/mp4", size |-> MaxVideoSize, dur |-> 80]
LongVideo == [type |-> "video/quicktime", size |-> 1024, dur |-> 160]
AudioFile == [type |-> "audio/mpeg", size |-> 1024, dur |-> 80]
HugeVideo == [type |-> "video/mp4", size |-> MaxVideoSize + 1, dur |-> 80]
VideoFiles == {ShortVideo, LongVideo, AudioFile, HugeVideo}
GoodAudio == [type |-> "audio/mpeg", size |-> MaxAudioSize, dur |-> 80]
HugeAudio == [type |-> "audio/wav", size |-> MaxAudioSize + 1, dur |-> 80]
AudioFiles == {GoodAudio, HugeAudio, ShortVideo}
DragSpans == {<<50, 70>>, <<0, 60>>}   \* spans the user drags on the waveform
TrackIds == 0..(TotalTracks - 1)
SliderVolumes == {0, 50}        \* hundredths a range input (min 0, max 1) yields
EngineVolumes == {50, 150}      \* hundredths a volume-change notification carries
EnginePositions == {-5, 20}     \* tenths of a second a start-position-change carries
NoFile == [type |-> "", size |-> 0, dur |-> 0]
MasterTimes == {0, 60}          \* positions the mixing engine plays through
FollowerTimes == {0, 2, 3}      \* positions the video element plays through
ZoomLevels == {10, 50}
EditValues == {-10, 60, 300}    \* numbers typed into a region's start/end box

Gens == 1..MaxGen

\* the scenarios and what the environment offers in each: "sync" plays and
\* seeks one video, "lifecycle" loads, rebuilds, resets and leaves, "files"
\* picks any file, "reload" adds regions and loads another video, "regions"
\* edits regions in a loaded session; "voice" loads audio and marks regions on
\* the VoiceUploader page, "trim" trims a loaded audio file with one executor
\* and "retrim" presses Trim Audio again while executors are still loading; "volume"
\* moves the volume sliders of a loaded session while the engine notifies the
\* page of the volumes it was told, and "tracks" has the engine of a loaded
\* session report volumes and start positions
Scenarios ==
  {"sync", "lifecycle", "files", "reload", "regions", "voice", "trim", "retrim", "volume",
   "tracks"}
Offered(s) ==
  CASE s = "sync" ->
         {"select", "zoom", "import", "playTick", "timeTick", "metadata", "toggle",
          "master", "follower", "skip", "reset", "resetTimeout", "resetThrows"}
    [] s = "lifecycle" ->
         {"select", "zoom", "import", "importFail", "playTick", "timeTick", "canplay",
          "attach", "metadata", "toggle", "reset", "resetTimeout", "unmount",
          "unmountThrows"}
    [] s = "regions" ->
         {"attach", "clock", "toggle", "master", "timeTick", "addRegion", "editRegion",
          "deleteRegion", "clearAll"}
    [] s = "reload" ->
         {"select", "zoom", "import", "canplay", "attach", "metadata", "editRegion", "reset",
          "resetTimeout", "addRegion", "deleteRegion", "clearAll"}
    [] s = "voice" ->
         {"voiceSelect", "voiceImport", "voiceImportFail", "voiceReset", "drag",
          "resize", "removeRegion", "trimEmpty", "voiceResetThrows"}
    [] s = "trim" ->
         {"voiceReset", "drag", "initFFmpeg", "ffmpegLoad", "trim", "trimStep",
          "resetTrimmed"}
    [] s = "retrim" ->
         {"drag", "ffmpegLoad", "trim", "executors", "trimStep"}
    [] s = "files" ->
         {"select", "import", "importFail", "reset", "resetTimeout"}
    [] s = "volume" ->
         {"volume", "volumeEcho", "reset", "resetTimeout"}
    [] s = "tracks" ->
         {"volumeChange", "positionChange", "reset", "resetTimeout"}
FilesOf(s) ==
  CASE s = "sync" -> {LongVideo}
    [] s = "lifecycle" -> {ShortVideo}
    [] s = "regions" -> {}
    [] s = "reload" -> {LongVideo, ShortVideo}
    [] s = "voice" -> AudioFiles
    [] s = "trim" -> {}
    [] s = "volume" -> {}
    [] s = "tracks" -> {}
    [] s = "retrim" -> {}
    [] s = "files" -> VideoFiles

Abs(x) == IF x < 0 THEN -x ELSE x
Min(a, b) == IF a < b THEN a ELSE b
Max(a, b) == IF a > b THEN a ELSE b

VARIABLES
  scenario,         \* the family of inputs offered in this behaviour (fixed)
  mounted,          \* the page component is mounted
  \* ---- Uploader: React state
  selectedFile, error, videoUrl, isPlaying, currentTime, duration, zoom, tracks,
  tracksReady, regions, selectedRegion,
  \* ---- Uploader: refs
  multitrackRef,    \* Null or the generation whose engine it refers to
  regionsPluginRef, \* Null or the generation whose regions plugin it refers to
  \* ---- Uploader: effect closures, one per run of the [videoUrl, zoom] effect
  gen,              \* number of effect runs that started an engine load
  cur,              \* Null or the run React will clean up next
  eff,              \* per run: isCancelled, intervals, wasPlaying, tracksLoaded, ...
  \* ---- external collaborators
  mt,               \* per run: the multitrack engine instance it created
  pluginRegions,    \* regions held by the plugin regionsPluginRef refers to
  video,            \* the <video> element (follower), rendered while videoUrl is set
  metaListener,     \* a loadedmetadata listener is registered on the element
  urlCount,         \* object URLs created so far
  revoked,          \* object URLs that were revoked
  resetPending,     \* pending setTimeout(() => setVideoUrl(null), 50) callbacks
  now,              \* Date.now()
  \* ---- VoiceUploader: React state and refs (gen, cur, eff, urlCount, revoked
  \* and calls are the mounted page's)
  voiceSelectedFile, voiceError, audioUrl, voiceRegions, isProcessing, trimmedAudioUrl,
  wavesurferRef,         \* Null or the run whose WaveSurfer instance it refers to
  voiceRegionsPluginRef, \* Null or the run whose regions plugin it refers to
  ffmpegRef,             \* Null or the FFmpeg instance it refers to
  ws,               \* per run: the WaveSurfer instance it created
  wsRegions,        \* regions held by the plugin of the latest WaveSurfer instance
  ffmpegs,          \* per FFmpeg instance: load state and files in its storage
  trims,            \* per trimAudio invocation: where it is and what it captured
  artifact,         \* the trim plan whose output trimmedAudioUrl points to
  calls             \* calls the last handler made on the engines, the timers, the
                    \* video element and the window, in order (calls on the regions
                    \* plugin show in pluginRegions)

upState == <<selectedFile, error, videoUrl, isPlaying, currentTime, duration, zoom, tracks,
             tracksReady, regions, selectedRegion>>
upRefs == <<multitrackRef, regionsPluginRef>>
upEnv == <<mt, pluginRegions, video, metaListener, urlCount, revoked, resetPending, now>>
voiceVars == <<voiceSelectedFile, voiceError, audioUrl, voiceRegions, isProcessing,
               trimmedAudioUrl, wavesurferRef, voiceRegionsPluginRef, ffmpegRef, ws,
               wsRegions, ffmpegs, trims, artifact>>
upOnly == <<upState, upRefs, mt, pluginRegions, video, metaListener, resetPending, now>>
vars == <<scenario, mounted, upState, upRefs, gen, cur, eff, upEnv, voiceVars, calls>>

\* ------------------------------------------------------------ initial state
NewEffect ==
  [isCancelled |-> FALSE, importPending |-> FALSE, playStateInterval |-> FALSE,
   timeInterval |-> FALSE, wasPlaying |-> FALSE, tracksLoaded |-> 0,
   regionsPluginReady |-> FALSE, attachPending |-> FALSE]
NoEngine == [created |-> FALSE, destroyed |-> FALSE, playing |-> FALSE, time |-> 0, echo |-> <<>>]
NoWaveSurfer == [created |-> FALSE, destroyed |-> FALSE]
NoFFmpeg == [state |-> "none", files |-> {}]
NoPlan == [extract |-> <<>>, concat |-> [inputs |-> <<>>, n |-> 0]]
NoTrim == [pc |-> "idle", inst |-> Null, src |-> Null, plan |-> NoPlan]
VoiceFresh ==
  /\ voiceSelectedFile = NoFile /\ voiceError = "" /\ audioUrl = Null
  /\ voiceRegions = <<>> /\ isProcessing = FALSE /\ trimmedAudioUrl = Null
  /\ wavesurferRef = Null /\ voiceRegionsPluginRef = Null /\ ffmpegRef = Null
  /\ ws = [g \in Gens |-> NoWaveSurfer]
  /\ wsRegions = <<>>
  /\ ffmpegs = [k \in 1..MaxFFmpegs |-> NoFFmpeg]
  /\ trims = [i \in 1..MaxTrims |-> NoTrim]
  /\ artifact = NoPlan
NoVideo == [src |-> Null, dur |-> 0, paused |-> TRUE, currentTime |-> 0, meta |-> FALSE]

\* useState<Track[]>: volumes in hundredths
DefaultTracks ==
  [id \in 0..(TotalTracks - 1) |->
     [volume |-> IF id = 0 THEN 100 ELSE 80, startPosition |-> 0, draggable |-> id # 0]]

\* the page right after mounting: the effect ran with videoUrl null
Fresh ==
  /\ mounted = TRUE
  /\ selectedFile = NoFile /\ error = "" /\ videoUrl = Null
  /\ isPlaying = FALSE /\ currentTime = 0 /\ duration = 0 /\ zoom = 10 /\ tracks = DefaultTracks
  /\ tracksReady = FALSE /\ regions = <<>> /\ selectedRegion = Null
  /\ multitrackRef = Null /\ regionsPluginRef = Null
  /\ gen = 0 /\ cur = Null /\ eff = [g \in Gens |-> NewEffect]
  /\ mt = [g \in Gens |-> NoEngine]
  /\ pluginRegions = <<>>
  /\ video = NoVideo /\ metaListener = FALSE
  /\ urlCount = 0 /\ revoked = {}
  /\ resetPending = 0 /\ now = 1
  /\ calls = <<>>

\* a session in which file was selected, the engine was created, the
\* video's metadata arrived, the first track became playable and playback
\* reached position t (handleFileSelect, ImportDone, loadedmetadata,
\* togglePlayPause, MasterAdvance, updateTime, checkAllTracksReady and, if
\* attached, AttachRegionsPlugin, in that order)
LoadedSession(file, t, attached) ==
  /\ mounted = TRUE
  /\ selectedFile = file /\ error = "" /\ videoUrl = 1
  /\ isPlaying = (t > 0) /\ currentTime = t /\ duration = file.dur /\ zoom = 10 /\ tracks = DefaultTracks
  /\ tracksReady = FALSE /\ regions = <<>> /\ selectedRegion = Null
  /\ multitrackRef = 1 /\ regionsPluginRef = (IF attached THEN 1 ELSE Null)
  /\ gen = 1 /\ cur = 1
  /\ eff = [g \in Gens |->
              IF g = 1
              THEN [isCancelled |-> FALSE, importPending |-> FALSE,
                    playStateInterval |-> TRUE, timeInterval |-> TRUE,
                    wasPlaying |-> FALSE, tracksLoaded |-> 1,
                    regionsPluginReady |-> TRUE, attachPending |-> ~attached]
              ELSE NewEffect]
  /\ mt = [g \in Gens |->
             IF g = 1
             THEN [created |-> TRUE, destroyed |-> FALSE, playing |-> (t > 0), time |-> t,
                   echo |-> <<>>]
             ELSE NoEngine]
  /\ pluginRegions = <<>>
  /\ video = [src |-> 1, dur |-> file.dur, paused |-> TRUE, currentTime |-> t,
              meta |-> TRUE]
  /\ metaListener = TRUE
  /\ urlCount = 1 /\ revoked = {}
  /\ resetPending = 0 /\ now = 1
  /\ calls = <<>>

\* the voice page with GoodAudio selected, its waveform created and one
\* region dragged (voiceHandleFileSelect, voiceImportDone, DragRegion)
LoadedVoice(span) ==
  /\ mounted = TRUE
  /\ selectedFile = NoFile /\ error = "" /\ videoUrl = Null
  /\ isPlaying = FALSE /\ currentTime = 0 /\ duration = 0 /\ zoom = 10 /\ tracks = DefaultTracks
  /\ tracksReady = FALSE /\ regions = <<>> /\ selectedRegion = Null
  /\ multitrackRef = Null /\ regionsPluginRef = Null
  /\ gen = 1 /\ cur = 1 /\ eff = [g \in Gens |-> NewEffect]
  /\ mt = [g \in Gens |-> NoEngine]
  /\ pluginRegions = <<>>
  /\ video = NoVideo /\ metaListener = FALSE
  /\ urlCount = 1 /\ revoked = {}
  /\ resetPending = 0 /\ now = 1
  /\ calls = <<>>
  /\ voiceSelectedFile = GoodAudio /\ voiceError = "" /\ audioUrl = 1
  /\ voiceRegions = << [id |-> 1, start |-> span[1], end |-> span[2]] >>
  /\ isProcessing = FALSE /\ trimmedAudioUrl = Null
  /\ wavesurferRef = 1 /\ voiceRegionsPluginRef = 1 /\ ffmpegRef = Null
  /\ ws = [g \in Gens |-> IF g = 1 THEN [created |-> TRUE, destroyed |-> FALSE]
                                    ELSE NoWaveSurfer]
  /\ wsRegions = voiceRegions
  /\ ffmpegs = [k \in 1..MaxFFmpegs |-> NoFFmpeg]
  /\ trims = [i \in 1..MaxTrims |-> NoTrim]
  /\ artifact = NoPlan

Init ==
  /\ scenario \in Scenarios
  /\ IF scenario \in {"regions", "volume", "tracks"}
     THEN /\ VoiceFresh
          /\ \E file \in {LongVideo, ShortVideo}, t \in MasterTimes, attached \in BOOLEAN :
               LoadedSession(file, t, attached)
     ELSE IF scenario \in {"trim", "retrim"}
     THEN \E span \in DragSpans : LoadedVoice(span)
     ELSE VoiceFresh /\ Fresh

\* videoRef.current / containerRef.current: rendered while videoUrl is set
VideoRef == mounted /\ videoUrl # Null

\* ------------------------------------------------------------ file handling
\* validateVideo: "" when the file is accepted, else the message it sets
\* a validation that also turns away a file of exactly the maximum size
StrictValidateVideo(file) ==
  IF file.type \notin VALID_VIDEO_TYPES THEN "Invalid file type"
  ELSE IF file.size >= MaxVideoSize THEN "File is too large"
  ELSE ""

validateVideo(file) ==
  IF file.type \notin VALID_VIDEO_TYPES THEN "Invalid file type"
  ELSE IF file.size > MaxVideoSize THEN "File is too large"
  ELSE ""

\* ------------------------------------------------- the [videoUrl, zoom] effect
\* the effect's cleanup function, on the closure of a run.  wasPlaying,
\* tracksLoaded and regionsPluginReady are locals that only the interval
\* callbacks and the canplay handler of that run read; once the run is
\* cancelled and its engine destroyed nothing reads them, and they are dropped.
CleanupEffect(e) ==
  [e EXCEPT !.isCancelled = TRUE, !.playStateInterval = FALSE, !.timeInterval = FALSE,
            !.wasPlaying = FALSE, !.tracksLoaded = 0, !.regionsPluginReady = FALSE]

CleanupCalls(g) ==
  (IF g # Null /\ eff[g].playStateInterval
   THEN << <<"clearInterval.playState", g>> >> ELSE <<>>)
  \o (IF g # Null /\ eff[g].timeInterval
      THEN << <<"clearInterval.time", g>> >> ELSE <<>>)
  \o (IF multitrackRef # Null THEN << <<"destroy", multitrackRef>> >> ELSE <<>>)

\* destroy() stops the instance's audio and drops its position
DestroyEngine(m, g) ==
  [m EXCEPT ![g].destroyed = TRUE, ![g].playing = FALSE, ![g].time = 0, ![g].echo = <<>>]

\* the closures after the cleanup of the current run
CleanedUp == IF cur = Null THEN eff ELSE [eff EXCEPT ![cur] = CleanupEffect(@)]

\* React commits a change of videoUrl or zoom: cleanup of the current run,
\* then setupMultitrack of the next run up to its first await.  After the
\* cleanup multitrackRef is null, so setupMultitrack's own destroy of an
\* existing instance finds nothing to destroy.  A run with videoUrl null
\* returns at setupMultitrack's first guard: its closure never holds anything.
RerunEffect(newUrl, pre) ==
  /\ IF newUrl = Null
     THEN /\ cur' = Null
          /\ eff' = CleanedUp
          /\ UNCHANGED gen
     ELSE /\ gen < MaxGen
          /\ gen' = gen + 1
          /\ cur' = gen + 1
          /\ eff' = [CleanedUp EXCEPT ![gen + 1] = [NewEffect EXCEPT !.importPending = TRUE]]
  /\ mt' = IF multitrackRef # Null THEN DestroyEngine(mt, multitrackRef) ELSE mt
  /\ multitrackRef' = Null
  /\ regionsPluginRef' = Null
  /\ pluginRegions' = <<>>
  /\ calls' = pre \o CleanupCalls(cur)

\* the <video src={videoUrl}> element after the render that commits newUrl
RenderVideo(newUrl, newDur) ==
  IF newUrl = Null THEN video' = NoVideo /\ metaListener' = FALSE
  ELSE /\ video' = [src |-> newUrl, dur |-> newDur, paused |-> TRUE, currentTime |-> 0,
                     meta |-> FALSE]
       /\ metaListener' = (IF videoUrl = Null THEN FALSE ELSE metaListener)

handleFileSelect(file) ==
  /\ mounted
  /\ IF validateVideo(file) # ""
     THEN /\ error' = validateVideo(file)
          /\ calls' = <<>>
          /\ UNCHANGED <<selectedFile, videoUrl, isPlaying, currentTime, duration, zoom, tracks,
                         tracksReady, regions, selectedRegion, upRefs, gen, cur, eff, upEnv>>
     ELSE /\ error' = ""
          /\ selectedFile' = file
          /\ urlCount' = urlCount + 1
          /\ videoUrl' = urlCount + 1
          /\ RenderVideo(urlCount + 1, file.dur)
          /\ RerunEffect(urlCount + 1, <<>>)
          /\ UNCHANGED <<isPlaying, currentTime, duration, zoom, tracks, tracksReady, regions,
                         selectedRegion, revoked, resetPending, now>>
  /\ UNCHANGED <<scenario, voiceVars, mounted>>

handleZoomChange(value) ==
  /\ mounted /\ videoUrl # Null
  /\ value # zoom
  /\ zoom' = value
  /\ RerunEffect(videoUrl, <<>>)
  /\ UNCHANGED <<scenario, voiceVars, mounted, selectedFile, error, videoUrl, isPlaying, currentTime,
                 duration, tracks, tracksReady, regions, selectedRegion, video, metaListener,
                 urlCount, revoked, resetPending, now>>

\* the imports of setupMultitrack fail: the catch block
ImportFailed(g) ==
  /\ eff[g].importPending
  /\ eff' = [eff EXCEPT ![g].importPending = FALSE]
  /\ error' = (IF mounted THEN "Failed to load multitrack editor." ELSE error)
  /\ calls' = <<>>
  /\ UNCHANGED <<scenario, voiceVars, mounted, selectedFile, videoUrl, isPlaying, currentTime, duration,
                 zoom, tracks, tracksReady, regions, selectedRegion, upRefs, gen, cur, upEnv>>

\* a setup that does not look at its cancellation flag after the imports
NeverCancelled(g) == FALSE

\* the guard after the awaited imports
CancelledAfterImport(g) == eff[g].isCancelled

\* a setup that never finds the duration and always waits for the event
AlwaysSubscribe == FALSE

\* if (videoRef.current && videoRef.current.duration)
DurationKnown == VideoRef /\ video.meta

\* the imports resolve: setupMultitrack from "if (isCancelled) return" to its end
ImportDone(g) ==
  /\ eff[g].importPending
  /\ IF CancelledAfterImport(g)
     THEN /\ eff' = [eff EXCEPT ![g].importPending = FALSE]
          /\ calls' = <<>>
          /\ UNCHANGED <<duration, metaListener, mt, multitrackRef>>
     ELSE /\ mt' = [mt EXCEPT ![g] = [created |-> TRUE, destroyed |-> FALSE,
                                      playing |-> FALSE, time |-> 0, echo |-> <<>>]]
          /\ eff' = [eff EXCEPT ![g] = [@ EXCEPT !.importPending = FALSE,
                                                 !.wasPlaying = FALSE,
                                                 !.playStateInterval = TRUE,
                                                 !.timeInterval = TRUE,
                                                 !.tracksLoaded = 0,
                                                 !.regionsPluginReady = FALSE]]
          /\ IF DurationKnown
             THEN duration' = video.dur /\ UNCHANGED metaListener
             ELSE metaListener' = (IF VideoRef THEN TRUE ELSE metaListener)
                  /\ UNCHANGED duration
          /\ multitrackRef' = g
          /\ calls' = << <<"create", g>> >>
  /\ UNCHANGED <<scenario, voiceVars, mounted, selectedFile, error, videoUrl, isPlaying, currentTime,
                 zoom, tracks, tracksReady, regions, selectedRegion, regionsPluginRef, gen, cur,
                 pluginRegions, video, urlCount, revoked, resetPending, now>>

\* ------------------------------------------------------- playback reconciler
\* what multitrack.isPlaying() of run g's engine gives: a destroyed instance
\* answers false or throws
IsPlayingResult(g) ==
  IF mt[g].destroyed THEN {"false", "throw"}
  ELSE {IF mt[g].playing THEN "true" ELSE "false"}

\* the 200 ms interval callback of run g
checkPlayState(g) ==
  /\ eff[g].playStateInterval
  /\ IF eff[g].isCancelled
     THEN calls' = <<>> /\ UNCHANGED <<isPlaying, video, eff>>
     ELSE \E res \in IsPlayingResult(g) :
            LET playing == (res = "true") IN
            IF res = "throw" \/ playing = eff[g].wasPlaying
            THEN /\ calls' = << <<"isPlaying", g>> >>
                 /\ UNCHANGED <<isPlaying, video, eff>>
            ELSE /\ isPlaying' = playing
                 /\ eff' = [eff EXCEPT ![g].wasPlaying = playing]
                 /\ IF VideoRef /\ playing /\ video.paused
                    THEN /\ video' = [video EXCEPT !.paused = FALSE]
                         /\ calls' = << <<"isPlaying", g>>, <<"video.play", 0>> >>
                    ELSE IF VideoRef /\ ~playing /\ ~video.paused
                    THEN /\ video' = [video EXCEPT !.paused = TRUE]
                         /\ calls' = << <<"isPlaying", g>>, <<"video.pause", 0>> >>
                    ELSE /\ UNCHANGED video
                         /\ calls' = << <<"isPlaying", g>> >>
  /\ UNCHANGED <<scenario, voiceVars, mounted, selectedFile, error, videoUrl, currentTime, duration,
                 zoom, tracks, tracksReady, regions, selectedRegion, upRefs, gen, cur, mt,
                 pluginRegions, metaListener, urlCount, revoked, resetPending, now>>

\* a threshold test that also corrects a drift of exactly 0.2 s
DriftAtLeast(followerTime, masterTime) == Abs(followerTime - masterTime) >= DriftThreshold

\* drift > 0.2 s
DriftExceeds(followerTime, masterTime) == Abs(followerTime - masterTime) > DriftThreshold

\* what multitrack.getCurrentTime() of run g's engine gives
GetCurrentTimeResult(g) ==
  IF mt[g].destroyed THEN {-1, mt[g].time} ELSE {mt[g].time}

\* the 250 ms interval callback of run g (-1: the call throws)
updateTime(g) ==
  /\ eff[g].timeInterval
  /\ IF eff[g].isCancelled \/ multitrackRef = Null
     THEN calls' = <<>> /\ UNCHANGED <<currentTime, video>>
     ELSE \E time \in GetCurrentTimeResult(g) :
            /\ calls' = << <<"getCurrentTime", g>> >>
            /\ IF time = -1
               THEN UNCHANGED <<currentTime, video>>
               ELSE /\ currentTime' = time
                    /\ IF VideoRef /\ DriftExceeds(video.currentTime, time)
                       THEN video' = [video EXCEPT !.currentTime = time]
                       ELSE UNCHANGED video
  /\ UNCHANGED <<scenario, voiceVars, mounted, selectedFile, error, videoUrl, isPlaying, duration,
                 zoom, tracks, tracksReady, regions, selectedRegion, upRefs, gen, cur, eff, mt,
                 pluginRegions, metaListener, urlCount, revoked, resetPending, now>>

\* the engine of run g emits 'canplay': checkAllTracksReady
checkAllTracksReady(g) ==
  /\ mt[g].created /\ ~mt[g].destroyed
  /\ eff[g].tracksLoaded < TotalTracks
  /\ eff' = [eff EXCEPT ![g] =
               [@ EXCEPT !.tracksLoaded = @ + 1,
                         !.regionsPluginReady =
                            IF eff[g].tracksLoaded + 1 = 1 /\ ~eff[g].regionsPluginReady
                            THEN TRUE ELSE @,
                         !.attachPending =
                            IF eff[g].tracksLoaded + 1 = 1 /\ ~eff[g].regionsPluginReady
                            THEN TRUE ELSE @]]
  /\ tracksReady' = (IF eff[g].tracksLoaded + 1 = TotalTracks /\ mounted
                     THEN TRUE ELSE tracksReady)
  /\ calls' = <<>>
  /\ UNCHANGED <<scenario, voiceVars, mounted, selectedFile, error, videoUrl, isPlaying, currentTime,
                 duration, zoom, tracks, regions, selectedRegion, upRefs, gen, cur, upEnv>>

\* the 500 ms timer set by checkAllTracksReady of run g fires; timers of equal
\* delay fire in the order they were set
AttachRegionsPlugin(g) ==
  /\ eff[g].attachPending
  /\ \A h \in Gens : h < g => ~eff[h].attachPending
  /\ eff' = [eff EXCEPT ![g].attachPending = FALSE]
  /\ regionsPluginRef' = g
  /\ pluginRegions' = <<>>
  /\ calls' = <<>>
  /\ UNCHANGED <<scenario, voiceVars, mounted, upState, multitrackRef, gen, cur, mt, video, metaListener,
                 urlCount, revoked, resetPending, now>>

\* the video element's loadedmetadata event
loadedmetadata ==
  /\ VideoRef /\ video.src # Null /\ video.src \notin revoked /\ ~video.meta
  /\ video' = [video EXCEPT !.meta = TRUE]
  /\ duration' = (IF metaListener THEN video.dur ELSE duration)
  /\ calls' = <<>>
  /\ UNCHANGED <<scenario, voiceVars, mounted, selectedFile, error, videoUrl, isPlaying, currentTime,
                 zoom, tracks, tracksReady, regions, selectedRegion, upRefs, gen, cur, eff, mt,
                 pluginRegions, metaListener, urlCount, revoked, resetPending, now>>

\* the mixing engine plays on
MasterAdvance(g) ==
  /\ mt[g].created /\ ~mt[g].destroyed /\ mt[g].playing
  /\ \E t \in MasterTimes : t > mt[g].time /\ mt' = [mt EXCEPT ![g].time = t]
  /\ calls' = <<>>
  /\ UNCHANGED <<scenario, voiceVars, mounted, upState, upRefs, gen, cur, eff, pluginRegions, video,
                 metaListener, urlCount, revoked, resetPending, now>>

\* the video element plays on
FollowerAdvance ==
  /\ VideoRef /\ ~video.paused
  /\ \E t \in FollowerTimes : t > video.currentTime /\ video' = [video EXCEPT !.currentTime = t]
  /\ calls' = <<>>
  /\ UNCHANGED <<scenario, voiceVars, mounted, upState, upRefs, gen, cur, eff, mt, pluginRegions,
                 metaListener, urlCount, revoked, resetPending, now>>

togglePlayPause ==
  /\ mounted /\ videoUrl # Null
  /\ multitrackRef # Null
  /\ IF mt[multitrackRef].playing
     THEN /\ mt' = [mt EXCEPT ![multitrackRef].playing = FALSE]
          /\ isPlaying' = FALSE
          /\ calls' = << <<"isPlaying", multitrackRef>>, <<"pause", multitrackRef>> >>
     ELSE /\ mt' = [mt EXCEPT ![multitrackRef].playing = TRUE]
          /\ isPlaying' = TRUE
          /\ calls' = << <<"isPlaying", multitrackRef>>, <<"play", multitrackRef>> >>
  /\ UNCHANGED <<scenario, voiceVars, mounted, selectedFile, error, videoUrl, currentTime, duration,
                 zoom, tracks, tracksReady, regions, selectedRegion, upRefs, gen, cur, eff,
                 pluginRegions, video, metaListener, urlCount, revoked, resetPending, now>>

skipTime(seconds) ==
  /\ mounted /\ videoUrl # Null
  /\ multitrackRef # Null
  /\ mt' = [mt EXCEPT ![multitrackRef].time = Max(0, Min(duration, currentTime + seconds))]
  /\ calls' = << <<"setTime", multitrackRef>> >>
  /\ UNCHANGED <<scenario, voiceVars, mounted, upState, upRefs, gen, cur, eff, pluginRegions, video,
                 metaListener, urlCount, revoked, resetPending, now>>

\* ------------------------------------------------------------------ teardown
\* a teardown that destroys the engine and pauses it afterwards
DestroyThenPause(g) ==
  << <<"isPlaying", g>>, <<"destroy", g>> >>
  \o (IF mt[g].playing THEN << <<"pause", g>> >> ELSE <<>>)

\* if (isPlaying?.()) pause();  destroy();
StopEngineCalls(g) ==
  << <<"isPlaying", g>> >>
  \o (IF mt[g].playing THEN << <<"pause", g>> >> ELSE <<>>)
  \o << <<"destroy", g>> >>

ResetCalls ==
  (IF multitrackRef # Null THEN StopEngineCalls(multitrackRef) ELSE <<>>)
  \o (IF VideoRef THEN << <<"video.pause", 0>> >> ELSE <<>>)
  \o (IF videoUrl # Null THEN << <<"revokeObjectURL", videoUrl>> >> ELSE <<>>)

resetUpload ==
  /\ mounted
  /\ selectedFile # NoFile
  /\ resetPending < MaxPendingResets
  /\ mt' = IF multitrackRef # Null THEN DestroyEngine(mt, multitrackRef) ELSE mt
  /\ multitrackRef' = Null
  /\ video' = IF VideoRef THEN NoVideo ELSE video
  /\ revoked' = IF videoUrl # Null THEN revoked \cup {videoUrl} ELSE revoked
  /\ selectedFile' = NoFile
  /\ error' = ""
  /\ isPlaying' = FALSE
  /\ currentTime' = 0
  /\ duration' = 0
  /\ tracksReady' = FALSE
  /\ regions' = <<>>
  /\ selectedRegion' = Null
  /\ regionsPluginRef' = Null
  /\ pluginRegions' = <<>>
  /\ resetPending' = resetPending + 1
  /\ calls' = ResetCalls
  /\ tracks' = DefaultTracks
  /\ UNCHANGED <<scenario, voiceVars, mounted, videoUrl, zoom, gen, cur, eff, metaListener, urlCount, now>>

\* the 50 ms timer of resetUpload fires: setVideoUrl(null)
ResetTimeout ==
  /\ resetPending > 0
  /\ resetPending' = resetPending - 1
  /\ IF mounted /\ videoUrl # Null
     THEN /\ videoUrl' = Null
          /\ RenderVideo(Null, 0)
          /\ RerunEffect(Null, <<>>)
     ELSE /\ calls' = <<>>
          /\ UNCHANGED <<videoUrl, video, metaListener, gen, cur, eff, mt, upRefs, pluginRegions>>
  /\ UNCHANGED <<scenario, voiceVars, mounted, selectedFile, error, isPlaying, currentTime, duration,
                 zoom, tracks, tracksReady, regions, selectedRegion, urlCount, revoked, now>>

\* the page is left: the effect's cleanup runs and nothing is set up again
Unmount ==
  /\ mounted
  /\ mounted' = FALSE
  /\ eff' = CleanedUp
  /\ cur' = Null
  /\ mt' = IF multitrackRef # Null THEN DestroyEngine(mt, multitrackRef) ELSE mt
  /\ multitrackRef' = Null
  /\ regionsPluginRef' = Null
  /\ pluginRegions' = <<>>
  /\ video' = NoVideo /\ metaListener' = FALSE
  /\ calls' = CleanupCalls(cur)
  /\ UNCHANGED <<scenario, voiceVars, upState, gen, urlCount, revoked, resetPending, now>>

\* ------------------------------------------------------- failing teardown
\* the calls of resetUpload's first try block that can throw
ResetThrowPoints == {"isPlaying", "pause", "destroy", "video.pause"}

\* the calls resetUpload makes on engine g up to the one that throws, and the
\* console.warn of the catch block
StopEngineCallsUntil(g, p) ==
  << <<"isPlaying", g>> >>
  \o (IF p # "isPlaying" /\ mt[g].playing THEN << <<"pause", g>> >> ELSE <<>>)
  \o (IF p = "destroy" THEN << <<"destroy", g>> >> ELSE <<>>)
  \o << <<"console.warn", g>> >>

\* the engine after a teardown that threw at p: a call that throws has no
\* effect, the calls before it had theirs
EngineAfterThrow(m, g, p) ==
  IF p = "destroy" THEN [m EXCEPT ![g].playing = FALSE] ELSE m

\* resetUpload when the call p of one of its try blocks throws
resetUploadThrows(p) ==
  /\ mounted
  /\ selectedFile # NoFile
  /\ resetPending < MaxPendingResets
  /\ IF p = "video.pause"
     THEN /\ VideoRef
          /\ mt' = IF multitrackRef # Null THEN DestroyEngine(mt, multitrackRef) ELSE mt
          /\ video' = video
          /\ calls' = (IF multitrackRef # Null THEN StopEngineCalls(multitrackRef) ELSE <<>>)
                      \o << <<"video.pause", 0>>, <<"console.warn", 0>> >>
                      \o (IF videoUrl # Null THEN << <<"revokeObjectURL", videoUrl>> >> ELSE <<>>)
     ELSE /\ multitrackRef # Null
          /\ p = "pause" => mt[multitrackRef].playing
          /\ mt' = EngineAfterThrow(mt, multitrackRef, p)
          /\ video' = IF VideoRef THEN NoVideo ELSE video
          /\ calls' = StopEngineCallsUntil(multitrackRef, p)
                      \o (IF VideoRef THEN << <<"video.pause", 0>> >> ELSE <<>>)
                      \o (IF videoUrl # Null THEN << <<"revokeObjectURL", videoUrl>> >> ELSE <<>>)
  /\ multitrackRef' = Null
  /\ revoked' = IF videoUrl # Null THEN revoked \cup {videoUrl} ELSE revoked
  /\ selectedFile' = NoFile
  /\ error' = ""
  /\ isPlaying' = FALSE
  /\ currentTime' = 0
  /\ duration' = 0
  /\ tracksReady' = FALSE
  /\ regions' = <<>>
  /\ selectedRegion' = Null
  /\ regionsPluginRef' = Null
  /\ pluginRegions' = <<>>
  /\ resetPending' = resetPending + 1
  /\ tracks' = DefaultTracks
  /\ UNCHANGED <<scenario, voiceVars, mounted, videoUrl, zoom, gen, cur, eff, metaListener, urlCount, now>>

\* the page is left and destroy() throws in the effect's cleanup
UnmountThrows ==
  /\ mounted
  /\ multitrackRef # Null
  /\ mounted' = FALSE
  /\ eff' = CleanedUp
  /\ cur' = Null
  /\ mt' = mt
  /\ multitrackRef' = Null
  /\ regionsPluginRef' = Null
  /\ pluginRegions' = <<>>
  /\ video' = NoVideo /\ metaListener' = FALSE
  /\ calls' = CleanupCalls(cur) \o << <<"console.warn", multitrackRef>> >>
  /\ UNCHANGED <<scenario, voiceVars, upState, gen, urlCount, revoked, resetPending, now>>

\* ------------------------------------------------------------ track volumes
\* a stored volume limited to [0, 1]
ClampedVolume(volume) == Max(0, Min(100, volume))

\* { ...t, volume }
StoredVolume(volume) == volume

\* setTracks(prev => prev.map(t => t.id === id ? { ...t, volume } : t))
SetTrackVolume(list, id, volume) ==
  [t \in DOMAIN list |-> IF t = id THEN [list[t] EXCEPT !.volume = StoredVolume(volume)]
                         ELSE list[t]]

\* the range input of a track (min 0, max 1) changes
\* the engine of run g was told the volume of a track: it may notify its
\* volume-change listeners of that value, now or later, or not at all
CommandVolume(m, g, trackId, volume, notifies) ==
  IF notifies THEN [m EXCEPT ![g].echo = Append(@, <<trackId, volume>>)] ELSE m

updateTrackVolume(trackId, volume) ==
  /\ mounted /\ videoUrl # Null
  /\ tracks' = SetTrackVolume(tracks, trackId, volume)
  /\ IF multitrackRef # Null
     THEN /\ calls' = << <<"setVolume", multitrackRef>> >>
          /\ \E notifies \in BOOLEAN :
               /\ notifies => Len(mt[multitrackRef].echo) < MaxEchoes
               /\ mt' = CommandVolume(mt, multitrackRef, trackId, volume, notifies)
     ELSE /\ calls' = <<>>
          /\ UNCHANGED mt
  /\ UNCHANGED <<scenario, voiceVars, mounted, selectedFile, error, videoUrl, isPlaying,
                 currentTime, duration, zoom, tracksReady, regions, selectedRegion, upRefs,
                 gen, cur, eff, pluginRegions, video, metaListener, urlCount, revoked,
                 resetPending, now>>

\* a handler that tells the engine the volume it was notified of, which the
\* engine notifies again
EchoRecommanded(echo) == Append(Tail(echo), Head(echo))

\* the notifications left once the handler has run: it only calls setTracks
EchoHandled(echo) == Tail(echo)

\* the engine of run g delivers the notification of a volume it was told:
\* the volume-change handler
VolumeEcho(g) ==
  /\ mounted
  /\ mt[g].created /\ ~mt[g].destroyed
  /\ mt[g].echo # <<>>
  /\ tracks' = SetTrackVolume(tracks, Head(mt[g].echo)[1], Head(mt[g].echo)[2])
  /\ mt' = [mt EXCEPT ![g].echo = EchoHandled(@)]
  /\ calls' = << <<"on.volume-change", g>> >>
  /\ UNCHANGED <<scenario, voiceVars, mounted, selectedFile, error, videoUrl, isPlaying,
                 currentTime, duration, zoom, tracksReady, regions, selectedRegion, upRefs,
                 gen, cur, eff, pluginRegions, video, metaListener, urlCount, revoked,
                 resetPending, now>>

\* multitrack.on('volume-change', ({ id, volume }) => ...) of the engine of
\* run g: the page stores whatever value the engine reports
VolumeChange(g, id, volume) ==
  /\ mounted
  /\ mt[g].created /\ ~mt[g].destroyed
  /\ tracks' = SetTrackVolume(tracks, id, volume)
  /\ calls' = <<>>
  /\ UNCHANGED <<scenario, voiceVars, mounted, selectedFile, error, videoUrl, isPlaying,
                 currentTime, duration, zoom, tracksReady, regions, selectedRegion, upRefs,
                 gen, cur, eff, upEnv>>

\* a start position that is kept only for a draggable track, and never below 0
GuardedStartPosition(t, startPosition) ==
  IF t.draggable THEN Max(0, startPosition) ELSE t.startPosition

\* { ...t, startPosition }
StoredStartPosition(t, startPosition) == startPosition

\* setTracks(prev => prev.map(t => t.id === id ? { ...t, startPosition } : t))
SetTrackStartPosition(list, id, startPosition) ==
  [t \in DOMAIN list |->
     IF t = id
     THEN [list[t] EXCEPT !.startPosition = StoredStartPosition(list[t], startPosition)]
     ELSE list[t]]

\* multitrack.on('start-position-change', ({ id, startPosition }) => ...) of
\* the engine of run g: the page stores whatever position the engine reports
StartPositionChange(g, id, startPosition) ==
  /\ mounted
  /\ mt[g].created /\ ~mt[g].destroyed
  /\ tracks' = SetTrackStartPosition(tracks, id, startPosition)
  /\ calls' = <<>>
  /\ UNCHANGED <<scenario, voiceVars, mounted, selectedFile, error, videoUrl, isPlaying,
                 currentTime, duration, zoom, tracksReady, regions, selectedRegion, upRefs,
                 gen, cur, eff, upEnv>>

\* ---------------------------------------------------------- region management
\* the clock behind Date.now() moves on
ClockTick ==
  /\ now < MaxClock
  /\ now' = now + 1
  /\ calls' = <<>>
  /\ UNCHANGED <<scenario, voiceVars, mounted, upState, upRefs, gen, cur, eff, mt, pluginRegions, video,
                 metaListener, urlCount, revoked, resetPending>>

\* a region end that ignores the duration
UnclampedRegionEnd(start) == start + DefaultRegionLength

\* end = Math.min(start + 10, duration)
RegionEnd(start) == Min(start + DefaultRegionLength, duration)

\* a not-ready addRegion that reports through the page's error message
AddRegionSetsError ==
  /\ calls' = << <<"alert", 0>> >>
  /\ error' = "Please wait for the video to load completely."
  /\ UNCHANGED <<regions, pluginRegions, selectedRegion>>

\* addRegion when regionsPluginRef.current is null: alert and return
AddRegionNotReady ==
  /\ calls' = << <<"alert", 0>> >>
  /\ UNCHANGED <<regions, pluginRegions, selectedRegion, error>>

\* a list update that puts the new region first
PrependRegion(list, r) == <<r>> \o list

\* setRegions(prev => [...prev, region])
AppendRegion(list, r) == Append(list, r)

addRegion ==
  /\ mounted /\ videoUrl # Null
  /\ Len(regions) < MaxRegions /\ Len(pluginRegions) < MaxRegions
  /\ IF regionsPluginRef = Null
     THEN AddRegionNotReady
     ELSE LET r == [id |-> now, start |-> currentTime, end |-> RegionEnd(currentTime)] IN
          /\ pluginRegions' = Append(pluginRegions, r)
          /\ regions' = AppendRegion(regions, r)
          /\ calls' = <<>>
          /\ UNCHANGED <<selectedRegion, error>>
  /\ UNCHANGED <<scenario, voiceVars, mounted, selectedFile, videoUrl, isPlaying, currentTime, duration,
                 zoom, tracks, tracksReady, upRefs, gen, cur, eff, mt, video, metaListener, urlCount,
                 revoked, resetPending, now>>

\* index of the first region with this id in a store, 0 when there is none
RECURSIVE FindFrom(_, _, _)
FindFrom(store, id, i) ==
  IF i > Len(store) THEN 0
  ELSE IF store[i].id = id THEN i
  ELSE FindFrom(store, id, i + 1)
Find(store, id) == FindFrom(store, id, 1)

Without(store, i) == [j \in 1..(Len(store) - 1) |-> IF j < i THEN store[j] ELSE store[j + 1]]
FilterOut(store, id) == SelectSeq(store, LAMBDA r : r.id # id)

\* validStart = Math.max(0, Math.min(start, duration))
ValidStart(start) == Max(0, Min(start, duration))

\* validEnd = Math.max(validStart, Math.min(end, duration))
ValidEnd(start, end) == Max(ValidStart(start), Min(end, duration))

\* returns without a change when the plugin handle is unset or the plugin
\* holds no region with this id
updateRegionTime(regionId, start, end) ==
  /\ mounted /\ videoUrl # Null
  /\ IF regionsPluginRef = Null \/ Find(pluginRegions, regionId) = 0
     THEN UNCHANGED <<pluginRegions, regions>>
     ELSE /\ pluginRegions' = [pluginRegions EXCEPT ![Find(pluginRegions, regionId)] =
                                 [@ EXCEPT !.start = ValidStart(start),
                                           !.end = ValidEnd(start, end)]]
          /\ regions' = [i \in 1..Len(regions) |->
                           IF regions[i].id = regionId
                           THEN [regions[i] EXCEPT !.start = ValidStart(start),
                                                   !.end = ValidEnd(start, end)]
                           ELSE regions[i]]
  /\ calls' = <<>>
  /\ UNCHANGED <<scenario, voiceVars, mounted, selectedFile, error, videoUrl, isPlaying, currentTime,
                 duration, zoom, tracks, tracksReady, selectedRegion, upRefs, gen, cur, eff, mt, video,
                 metaListener, urlCount, revoked, resetPending, now>>

\* the start box of a listed region: parseFloat(value) || 0, with the region's end
EditRegionStart(i, v) ==
  /\ i \in 1..Len(regions)
  /\ updateRegionTime(regions[i].id, v, regions[i].end)

\* the end box of a listed region: parseFloat(value) || region.start
EditRegionEnd(i, v) ==
  /\ i \in 1..Len(regions)
  /\ updateRegionTime(regions[i].id, regions[i].start, IF v = 0 THEN regions[i].start ELSE v)

deleteRegion(regionId) ==
  /\ mounted /\ videoUrl # Null
  /\ \E i \in 1..Len(regions) : regions[i].id = regionId
  /\ IF regionsPluginRef = Null \/ Find(pluginRegions, regionId) = 0
     THEN UNCHANGED <<pluginRegions, regions, selectedRegion>>
     ELSE /\ pluginRegions' = Without(pluginRegions, Find(pluginRegions, regionId))
          /\ regions' = FilterOut(regions, regionId)
          /\ selectedRegion' = (IF selectedRegion = regionId THEN Null ELSE selectedRegion)
  /\ calls' = <<>>
  /\ UNCHANGED <<scenario, voiceVars, mounted, selectedFile, error, videoUrl, isPlaying, currentTime,
                 duration, zoom, tracks, tracksReady, upRefs, gen, cur, eff, mt, video, metaListener,
                 urlCount, revoked, resetPending, now>>

clearAllRegions ==
  /\ mounted /\ videoUrl # Null
  /\ Len(regions) > 0
  /\ IF regionsPluginRef = Null
     THEN UNCHANGED <<pluginRegions, regions, selectedRegion>>
     ELSE /\ pluginRegions' = <<>>
          /\ regions' = <<>>
          /\ selectedRegion' = Null
  /\ calls' = <<>>
  /\ UNCHANGED <<scenario, voiceVars, mounted, selectedFile, error, videoUrl, isPlaying, currentTime,
                 duration, zoom, tracks, tracksReady, upRefs, gen, cur, eff, mt, video, metaListener,
                 urlCount, revoked, resetPending, now>>

\* ================================================================ VoiceUploader
validateAudio(file) ==
  IF file.type \notin VALID_AUDIO_TYPES THEN "Invalid file type"
  ELSE IF file.size > MaxAudioSize THEN "File is too large"
  ELSE ""

\* React commits a change of audioUrl: the cleanup of the current run only
\* sets isCancelled; setupWaveform of the next run returns when audioUrl is
\* null, else destroys the instance wavesurferRef holds and starts the imports
RerunVoiceEffect(newUrl) ==
  /\ IF newUrl = Null
     THEN /\ cur' = Null
          /\ eff' = (IF cur = Null THEN eff ELSE [eff EXCEPT ![cur].isCancelled = TRUE])
          /\ UNCHANGED <<gen, ws, wavesurferRef, voiceRegionsPluginRef, wsRegions>>
          /\ calls' = <<>>
     ELSE /\ gen < MaxGen
          /\ gen' = gen + 1
          /\ cur' = gen + 1
          /\ eff' = [(IF cur = Null THEN eff ELSE [eff EXCEPT ![cur].isCancelled = TRUE])
                       EXCEPT ![gen + 1] = [NewEffect EXCEPT !.importPending = TRUE]]
          /\ IF wavesurferRef # Null
             THEN /\ ws' = [ws EXCEPT ![wavesurferRef].destroyed = TRUE]
                  /\ wavesurferRef' = Null
                  /\ voiceRegionsPluginRef' = Null
                  /\ wsRegions' = <<>>
                  /\ calls' = << <<"destroy", wavesurferRef>> >>
             ELSE /\ UNCHANGED <<ws, wavesurferRef, voiceRegionsPluginRef, wsRegions>>
                  /\ calls' = <<>>

voiceHandleFileSelect(file) ==
  /\ mounted
  /\ IF validateAudio(file) # ""
     THEN /\ voiceError' = validateAudio(file)
          /\ calls' = <<>>
          /\ UNCHANGED <<voiceSelectedFile, audioUrl, urlCount, gen, cur, eff, ws,
                         wavesurferRef, voiceRegionsPluginRef, wsRegions>>
     ELSE /\ voiceError' = ""
          /\ voiceSelectedFile' = file
          /\ urlCount' = urlCount + 1
          /\ audioUrl' = urlCount + 1
          /\ RerunVoiceEffect(urlCount + 1)
  /\ UNCHANGED <<scenario, mounted, upOnly, revoked, voiceRegions, isProcessing,
                 trimmedAudioUrl, ffmpegRef, ffmpegs, trims, artifact>>

\* the guard after the awaited imports of setupWaveform
VoiceCancelledAfterImport(g) == eff[g].isCancelled

\* the imports of setupWaveform resolve
voiceImportDone(g) ==
  /\ eff[g].importPending
  /\ eff' = [eff EXCEPT ![g].importPending = FALSE]
  /\ IF VoiceCancelledAfterImport(g)
     THEN /\ calls' = <<>>
          /\ UNCHANGED <<ws, wavesurferRef, voiceRegionsPluginRef, wsRegions>>
     ELSE /\ ws' = [ws EXCEPT ![g] = [created |-> TRUE, destroyed |-> FALSE]]
          /\ wavesurferRef' = g
          /\ voiceRegionsPluginRef' = g
          /\ wsRegions' = <<>>
          /\ calls' = << <<"create", g>> >>
  /\ UNCHANGED <<scenario, mounted, upOnly, gen, cur, urlCount, revoked,
                 voiceSelectedFile, voiceError, audioUrl, voiceRegions, isProcessing,
                 trimmedAudioUrl, ffmpegRef, ffmpegs, trims, artifact>>

\* the imports of setupWaveform fail: the catch block
voiceImportFailed(g) ==
  /\ eff[g].importPending
  /\ eff' = [eff EXCEPT ![g].importPending = FALSE]
  /\ voiceError' = "Failed to load waveform editor."
  /\ calls' = <<>>
  /\ UNCHANGED <<scenario, mounted, upOnly, gen, cur, urlCount, revoked,
                 voiceSelectedFile, audioUrl, voiceRegions, isProcessing,
                 trimmedAudioUrl, wavesurferRef, voiceRegionsPluginRef, ffmpegRef, ws,
                 wsRegions, ffmpegs, trims, artifact>>

\* resetUpload of the voice page when wavesurferRef.current.destroy() throws:
\* the URLs are revoked already, no try block surrounds the call, and the
\* statements after it never run
voiceResetUploadThrows ==
  /\ mounted
  /\ voiceSelectedFile # NoFile
  /\ wavesurferRef # Null
  /\ revoked' = revoked \cup ({audioUrl, trimmedAudioUrl} \ {Null})
  /\ calls' = << <<"destroy", wavesurferRef>>, <<"throw", wavesurferRef>> >>
  /\ UNCHANGED <<scenario, mounted, upOnly, gen, cur, eff, urlCount, voiceSelectedFile,
                 voiceError, audioUrl, voiceRegions, isProcessing, trimmedAudioUrl,
                 wavesurferRef, voiceRegionsPluginRef, ffmpegRef, ws, wsRegions, ffmpegs,
                 trims, artifact>>

voiceResetUpload ==
  /\ mounted
  /\ voiceSelectedFile # NoFile
  /\ revoked' = revoked \cup ({audioUrl, trimmedAudioUrl} \ {Null})
  /\ voiceRegions' = <<>>
  /\ voiceSelectedFile' = NoFile
  /\ voiceError' = ""
  /\ audioUrl' = Null
  /\ trimmedAudioUrl' = Null
  /\ IF wavesurferRef # Null
     THEN /\ ws' = [ws EXCEPT ![wavesurferRef].destroyed = TRUE]
          /\ wavesurferRef' = Null
          /\ voiceRegionsPluginRef' = Null
          /\ wsRegions' = <<>>
          /\ calls' = << <<"destroy", wavesurferRef>> >>
     ELSE /\ UNCHANGED <<ws, wavesurferRef, voiceRegionsPluginRef, wsRegions>>
          /\ calls' = <<>>
  \* setAudioUrl(null): the cleanup runs, setupWaveform returns at its guard
  /\ cur' = Null
  /\ eff' = (IF cur = Null THEN eff ELSE [eff EXCEPT ![cur].isCancelled = TRUE])
  /\ UNCHANGED <<scenario, mounted, upOnly, gen, urlCount, isProcessing, ffmpegRef,
                 ffmpegs, trims, artifact>>

\* smallest id the plugin does not hold
FreshRegionId(store) ==
  CHOOSE n \in 1..(Len(store) + 1) : \A j \in 1..Len(store) : store[j].id # n

\* syncRegions: the list of the plugin's regions, as id, start, end
syncRegions(store) ==
  [j \in 1..Len(store) |-> [id |-> store[j].id, start |-> store[j].start, end |-> store[j].end]]

\* the user drags a span on the waveform: the plugin creates a region and
\* emits region-created
DragRegion(span) ==
  /\ wavesurferRef # Null
  /\ Len(wsRegions) < MaxRegions
  /\ wsRegions' = Append(wsRegions,
                         [id |-> FreshRegionId(wsRegions), start |-> span[1], end |-> span[2]])
  /\ voiceRegions' = syncRegions(wsRegions')
  /\ calls' = <<>>
  /\ UNCHANGED <<scenario, mounted, upOnly, gen, cur, eff, urlCount, revoked,
                 voiceSelectedFile, voiceError, audioUrl, isProcessing, trimmedAudioUrl,
                 wavesurferRef, voiceRegionsPluginRef, ffmpegRef, ws, ffmpegs, trims,
                 artifact>>

\* the user moves or resizes region j on the waveform: the plugin updates it
\* and emits region-updated
ResizeRegion(j, span) ==
  /\ wavesurferRef # Null
  /\ j \in 1..Len(wsRegions)
  /\ wsRegions' = [wsRegions EXCEPT ![j] = [@ EXCEPT !.start = span[1], !.end = span[2]]]
  /\ voiceRegions' = syncRegions(wsRegions')
  /\ calls' = <<>>
  /\ UNCHANGED <<scenario, mounted, upOnly, gen, cur, eff, urlCount, revoked,
                 voiceSelectedFile, voiceError, audioUrl, isProcessing, trimmedAudioUrl,
                 wavesurferRef, voiceRegionsPluginRef, ffmpegRef, ws, ffmpegs, trims,
                 artifact>>

\* removeRegion: the plugin removes the region and emits region-removed
removeRegion(id) ==
  /\ mounted
  /\ IF voiceRegionsPluginRef = Null \/ Find(wsRegions, id) = 0
     THEN UNCHANGED <<wsRegions, voiceRegions>>
     ELSE /\ wsRegions' = Without(wsRegions, Find(wsRegions, id))
          /\ voiceRegions' = syncRegions(wsRegions')
  /\ calls' = <<>>
  /\ UNCHANGED <<scenario, mounted, upOnly, gen, cur, eff, urlCount, revoked,
                 voiceSelectedFile, voiceError, audioUrl, isProcessing, trimmedAudioUrl,
                 wavesurferRef, voiceRegionsPluginRef, ffmpegRef, ws, ffmpegs, trims,
                 artifact>>

\* ------------------------------------------------------------------- trimming
NewFFmpeg == CHOOSE k \in 1..MaxFFmpegs : ffmpegs[k].state = "none" /\
                \A j \in 1..MaxFFmpegs : j < k => ffmpegs[j].state # "none"

\* the Initialize Processor button: initFFmpeg up to its await
initFFmpeg ==
  /\ mounted /\ audioUrl # Null /\ Len(voiceRegions) > 0
  /\ ffmpegRef = Null
  /\ \E k \in 1..MaxFFmpegs : ffmpegs[k].state = "none"
  /\ ffmpegs' = [ffmpegs EXCEPT ![NewFFmpeg].state = "loading"]
  /\ calls' = <<>>
  /\ UNCHANGED <<scenario, mounted, upOnly, gen, cur, eff, urlCount, revoked,
                 voiceSelectedFile, voiceError, audioUrl, voiceRegions, isProcessing,
                 trimmedAudioUrl, wavesurferRef, voiceRegionsPluginRef, ffmpegRef, ws,
                 wsRegions, trims, artifact>>

\* the trim plan of a region list: one extraction per region in list order,
\* then the concatenation of that many streams
\* a plan that takes the regions last to first
ReversedTrimPlan(list) ==
  [extract |-> [j \in 1..Len(list) |->
                  [out |-> j - 1, start |-> list[Len(list) + 1 - j].start,
                   end |-> list[Len(list) + 1 - j].end]],
   concat |-> [inputs |-> [j \in 1..Len(list) |-> j - 1], n |-> Len(list)]]

\* filterParts: [0:a]atrim=start=S:end=E,asetpts=PTS-STARTPTS[a<index>] per
\* region; concatInputs: [a0][a1]... followed by concat=n=<regions.length>
TrimPlan(list) ==
  [extract |-> [j \in 1..Len(list) |->
                  [out |-> j - 1, start |-> list[j].start, end |-> list[j].end]],
   concat |-> [inputs |-> [j \in 1..Len(list) |-> j - 1], n |-> Len(list)]]

\* a guard that only looks at the file
NoFileSelected == voiceSelectedFile = NoFile

\* !selectedFile || regions.length === 0
NothingToTrim == voiceSelectedFile = NoFile \/ Len(voiceRegions) = 0

\* trimAudio up to its first await
trimAudio(i) ==
  /\ mounted
  /\ trims[i].pc = "idle"
  /\ \A j \in 1..MaxTrims : j < i => trims[j].pc # "idle" \/ trims[j].src # Null
  /\ trims[i].src = Null
  /\ IF NothingToTrim
     THEN /\ voiceError' = "Please select an audio file and create regions to trim"
          /\ UNCHANGED <<trims, ffmpegs, isProcessing>>
     ELSE IF ffmpegRef = Null
     THEN /\ \E k \in 1..MaxFFmpegs : ffmpegs[k].state = "none"
          /\ ffmpegs' = [ffmpegs EXCEPT ![NewFFmpeg].state = "loading"]
          /\ trims' = [trims EXCEPT ![i] = [pc |-> "init", inst |-> NewFFmpeg,
                                            src |-> audioUrl,
                                            plan |-> TrimPlan(voiceRegions)]]
          /\ UNCHANGED <<voiceError, isProcessing>>
     ELSE /\ trims' = [trims EXCEPT ![i] = [pc |-> "write", inst |-> ffmpegRef,
                                            src |-> audioUrl,
                                            plan |-> TrimPlan(voiceRegions)]]
          /\ isProcessing' = TRUE
          /\ voiceError' = ""
          /\ UNCHANGED ffmpegs
  /\ calls' = <<>>
  /\ UNCHANGED <<scenario, mounted, upOnly, gen, cur, eff, urlCount, revoked,
                 voiceSelectedFile, audioUrl, voiceRegions, trimmedAudioUrl,
                 wavesurferRef, voiceRegionsPluginRef, ffmpegRef, ws, wsRegions, artifact>>

\* ffmpeg.load() of instance k settles; a trimAudio that awaited this
\* initFFmpeg goes on to its next await
FFmpegLoaded(k, ok) ==
  /\ ffmpegs[k].state = "loading"
  /\ ffmpegs' = [ffmpegs EXCEPT ![k].state = IF ok THEN "loaded" ELSE "failed"]
  /\ ffmpegRef' = (IF ok THEN k ELSE ffmpegRef)
  /\ LET waiting == {i \in 1..MaxTrims : trims[i].pc = "init" /\ trims[i].inst = k} IN
     IF waiting = {}
     THEN /\ voiceError' = (IF ok THEN voiceError ELSE "Failed to load audio processor")
          /\ UNCHANGED <<trims, isProcessing>>
     ELSE IF ffmpegRef' = Null
     THEN /\ voiceError' = "Failed to initialize audio processor"
          /\ trims' = [i \in 1..MaxTrims |->
                         IF i \in waiting THEN [trims[i] EXCEPT !.pc = "idle"] ELSE trims[i]]
          /\ UNCHANGED isProcessing
     ELSE /\ voiceError' = ""
          /\ isProcessing' = TRUE
          /\ trims' = [i \in 1..MaxTrims |->
                         IF i \in waiting
                         THEN [trims[i] EXCEPT !.pc = "write", !.inst = ffmpegRef']
                         ELSE trims[i]]
  /\ calls' = <<>>
  /\ UNCHANGED <<scenario, mounted, upOnly, gen, cur, eff, urlCount, revoked,
                 voiceSelectedFile, audioUrl, voiceRegions, trimmedAudioUrl,
                 wavesurferRef, voiceRegionsPluginRef, ws, wsRegions, artifact>>

\* a finally block that leaves the flag as it is
KeepProcessing == isProcessing

\* finally { setIsProcessing(false) }
FinallyProcessing == FALSE

\* the catch and finally blocks of trimAudio
TrimFailed(i) ==
  /\ voiceError' = "Failed to trim audio"
  /\ isProcessing' = FinallyProcessing
  /\ trims' = [trims EXCEPT ![i].pc = "idle"]
  /\ UNCHANGED <<ffmpegs, trimmedAudioUrl, artifact, urlCount>>

\* one awaited executor call of trimAudio(i) settles
TrimStep(i, ok) ==
  /\ trims[i].pc \in {"write", "exec", "read", "deleteInput", "deleteOutput"}
  /\ IF ~ok
     THEN TrimFailed(i)
     ELSE CASE trims[i].pc = "write" ->
                 /\ ffmpegs' = [ffmpegs EXCEPT ![trims[i].inst].files = @ \cup {"input.wav"}]
                 /\ trims' = [trims EXCEPT ![i].pc = "exec"]
                 /\ UNCHANGED <<voiceError, isProcessing, trimmedAudioUrl, artifact, urlCount>>
            [] trims[i].pc = "exec" ->
                 /\ ffmpegs' = [ffmpegs EXCEPT ![trims[i].inst].files = @ \cup {"output.wav"}]
                 /\ trims' = [trims EXCEPT ![i].pc = "read"]
                 /\ UNCHANGED <<voiceError, isProcessing, trimmedAudioUrl, artifact, urlCount>>
            [] trims[i].pc = "read" ->
                 /\ urlCount' = urlCount + 1
                 /\ trimmedAudioUrl' = urlCount + 1
                 /\ artifact' = trims[i].plan
                 /\ trims' = [trims EXCEPT ![i].pc = "deleteInput"]
                 /\ UNCHANGED <<voiceError, isProcessing, ffmpegs>>
            [] trims[i].pc = "deleteInput" ->
                 /\ ffmpegs' = [ffmpegs EXCEPT ![trims[i].inst].files = @ \ {"input.wav"}]
                 /\ trims' = [trims EXCEPT ![i].pc = "deleteOutput"]
                 /\ UNCHANGED <<voiceError, isProcessing, trimmedAudioUrl, artifact, urlCount>>
            [] trims[i].pc = "deleteOutput" ->
                 /\ ffmpegs' = [ffmpegs EXCEPT ![trims[i].inst].files = @ \ {"output.wav"}]
                 /\ trims' = [trims EXCEPT ![i].pc = "idle"]
                 /\ isProcessing' = FinallyProcessing
                 /\ UNCHANGED <<voiceError, trimmedAudioUrl, artifact, urlCount>>
  /\ calls' = <<>>
  /\ UNCHANGED <<scenario, mounted, upOnly, gen, cur, eff, revoked, voiceSelectedFile,
                 audioUrl, voiceRegions, wavesurferRef, voiceRegionsPluginRef, ffmpegRef,
                 ws, wsRegions>>

resetTrimmedAudio ==
  /\ mounted
  /\ trimmedAudioUrl # Null
  /\ revoked' = revoked \cup {trimmedAudioUrl}
  /\ trimmedAudioUrl' = Null
  /\ calls' = <<>>
  /\ UNCHANGED <<scenario, mounted, upOnly, gen, cur, eff, urlCount, voiceSelectedFile,
                 voiceError, audioUrl, voiceRegions, isProcessing, wavesurferRef,
                 voiceRegionsPluginRef, ffmpegRef, ws, wsRegions, ffmpegs, trims, artifact>>

\* the Trim Audio button is rendered with the region list and disabled while processing
TrimButton == audioUrl # Null /\ Len(voiceRegions) > 0 /\ ~isProcessing

\* trimAudio called with an empty region list, past the button
TrimWithoutRegions == audioUrl # Null /\ Len(voiceRegions) = 0 /\ ~isProcessing

\* ------------------------------------------------------------- specification
Offers(a) == a \in Offered(scenario)

\* a handler may go on to create an executor: in every scenario the first
\* one, and further ones where "executors" is offered
MayCreateFFmpeg ==
  \/ Offers("executors")
  \/ ffmpegRef # Null
  \/ \A k \in 1..MaxFFmpegs : ffmpegs[k].state = "none"

Next ==
  \/ Offers("select") /\ \E f \in FilesOf(scenario) : handleFileSelect(f)
  \/ Offers("zoom") /\ \E z \in ZoomLevels : handleZoomChange(z)
  \/ Offers("import") /\ \E g \in Gens : ImportDone(g)
  \/ Offers("importFail") /\ \E g \in Gens : ImportFailed(g)
  \/ Offers("playTick") /\ \E g \in Gens : checkPlayState(g)
  \/ Offers("timeTick") /\ \E g \in Gens : updateTime(g)
  \/ Offers("canplay") /\ \E g \in Gens : checkAllTracksReady(g)
  \/ Offers("attach") /\ \E g \in Gens : AttachRegionsPlugin(g)
  \/ Offers("metadata") /\ loadedmetadata
  \/ Offers("master") /\ \E g \in Gens : MasterAdvance(g)
  \/ Offers("follower") /\ FollowerAdvance
  \/ Offers("toggle") /\ togglePlayPause
  \/ Offers("skip") /\ \E s \in {-SkipSeconds, SkipSeconds} : skipTime(s)
  \/ Offers("reset") /\ resetUpload
  \/ Offers("resetTimeout") /\ ResetTimeout
  \/ Offers("unmount") /\ Unmount
  \/ Offers("clock") /\ ClockTick
  \/ Offers("addRegion") /\ addRegion
  \/ Offers("editRegion") /\ \E i \in 1..MaxRegions, v \in EditValues : EditRegionStart(i, v)
  \/ Offers("editRegion") /\ \E i \in 1..MaxRegions, v \in EditValues : EditRegionEnd(i, v)
  \/ Offers("deleteRegion") /\ \E i \in 1..MaxRegions :
        i <= Len(regions) /\ deleteRegion(regions[i].id)
  \/ Offers("clearAll") /\ clearAllRegions
  \/ Offers("voiceSelect") /\ \E f \in FilesOf(scenario) : voiceHandleFileSelect(f)
  \/ Offers("voiceImport") /\ \E g \in Gens : voiceImportDone(g)
  \/ Offers("voiceImportFail") /\ \E g \in Gens : voiceImportFailed(g)
  \/ Offers("voiceReset") /\ voiceResetUpload
  \/ Offers("drag") /\ \E span \in DragSpans : DragRegion(span)
  \/ Offers("resize") /\ \E j \in 1..MaxRegions, span \in DragSpans : ResizeRegion(j, span)
  \/ Offers("removeRegion") /\ \E j \in 1..MaxRegions :
        j <= Len(voiceRegions) /\ removeRegion(voiceRegions[j].id)
  \/ Offers("initFFmpeg") /\ MayCreateFFmpeg /\ initFFmpeg
  \/ Offers("ffmpegLoad") /\ \E k \in 1..MaxFFmpegs, ok \in BOOLEAN : FFmpegLoaded(k, ok)
  \/ Offers("trim") /\ TrimButton /\ MayCreateFFmpeg /\ \E i \in 1..MaxTrims : trimAudio(i)
  \/ Offers("trimEmpty") /\ TrimWithoutRegions /\ \E i \in 1..MaxTrims : trimAudio(i)
  \/ Offers("trimStep") /\ \E i \in 1..MaxTrims, ok \in BOOLEAN : TrimStep(i, ok)
  \/ Offers("resetTrimmed") /\ resetTrimmedAudio
  \/ Offers("volume") /\ \E id \in TrackIds, v \in SliderVolumes : updateTrackVolume(id, v)
  \/ Offers("volumeEcho") /\ \E g \in Gens : VolumeEcho(g)
  \/ Offers("volumeChange") /\ \E g \in Gens, id \in TrackIds, v \in EngineVolumes :
       VolumeChange(g, id, v)
  \/ Offers("positionChange") /\ \E g \in Gens, id \in TrackIds, t \in EnginePositions :
       StartPositionChange(g, id, t)

Spec == Init /\ [][Next]_vars

\* the program with teardown calls that may throw
FaultNext ==
  \/ Next
  \/ Offers("resetThrows") /\ \E p \in ResetThrowPoints : resetUploadThrows(p)
  \/ Offers("unmountThrows") /\ UnmountThrows
  \/ Offers("voiceResetThrows") /\ voiceResetUploadThrows

FaultSpec == Init /\ [][FaultNext]_vars

\* =================================================================== properties
\* C1: on a drift tick of a live reconciler (not cancelled, engine handle
\* present, follower present) a drift above 0.2 s sets the follower's position
\* to the master's, and a drift of at most 0.2 s (0.2 included) leaves the
\* follower's position unchanged
C1_DriftTick ==
  [][\A g \in Gens :
       (updateTime(g) /\ ~eff[g].isCancelled /\ multitrackRef # Null /\ VideoRef
          /\ ~mt[g].destroyed)
       => IF Abs(video.currentTime - mt[g].time) > DriftThreshold
          THEN video'.currentTime = mt[g].time
          ELSE video'.currentTime = video.currentTime]_vars

\* a drift tick has just run on a drift of exactly 0.2 s and left it
C1_Witness ==
  \E g \in Gens :
    /\ calls = << <<"getCurrentTime", g>> >>
    /\ VideoRef /\ ~eff[g].isCancelled /\ multitrackRef = g
    /\ currentTime = mt[g].time
    /\ Abs(video.currentTime - mt[g].time) = DriftThreshold

\* C2: after a play-state tick of the current reconciler the published
\* isPlaying and the follower's play/pause state equal what the master
\* answered at that tick, in every generation
C2_PlayStateTick ==
  [][\A g \in Gens :
       (checkPlayState(g) /\ g = cur /\ ~eff[g].isCancelled /\ VideoRef
          /\ mt[g].created /\ ~mt[g].destroyed)
       => /\ isPlaying' = mt[g].playing
          /\ video'.paused = ~mt[g].playing]_vars

\* C3: a tick of a run whose engine has been destroyed calls nothing
C3_NoTickOnDestroyed ==
  [][\A g \in Gens :
       ((checkPlayState(g) \/ updateTime(g)) /\ mt[g].destroyed)
       => calls' = <<>> /\ UNCHANGED <<isPlaying, currentTime, video>>]_vars

\* C4: an engine is destroyed only with both tick timers of its run cancelled,
\* and the handler that destroys it cancels them before it calls destroy()
C4_TimersBeforeDestroy ==
  /\ \A g \in Gens :
       mt[g].destroyed => ~eff[g].playStateInterval /\ ~eff[g].timeInterval
  /\ \A i, j \in 1..Len(calls) :
       /\ calls[i][1] = "destroy"
       /\ calls[j][1] \in {"clearInterval.playState", "clearInterval.time"}
       => j < i

\* the engine instances that exist
LiveEngines == {g \in Gens : mt[g].created /\ ~mt[g].destroyed}
LiveWaveSurfers == {g \in Gens : ws[g].created /\ ~ws[g].destroyed}

\* C5: at most one engine instance exists at any time, it is the one of the
\* current run and the one the handle holds; a run that was superseded
\* before its imports resolved never has an engine
C5_OneEngine ==
  /\ Cardinality(LiveEngines) <= 1
  /\ Cardinality(LiveWaveSurfers) <= 1
  /\ \A g \in LiveEngines : multitrackRef = g /\ cur = g
  /\ \A g \in LiveWaveSurfers : wavesurferRef = g /\ cur = g

\* the imports of a superseded run resolved without an engine, and the
\* imports of the run after it resolved with one
C5_Witness ==
  \E g, h \in Gens :
    /\ g < h
    /\ eff[g].isCancelled /\ ~eff[g].importPending /\ ~mt[g].created
    /\ cur = h /\ multitrackRef = h /\ LiveEngines = {h}

\* C6: a completion that resumes after its session was torn down changes
\* nothing: the region-engine handle is only ever set to the plugin of the
\* engine that exists, tracksReady only becomes true while a file is
\* selected, and a trimmed artifact is only published by a trim that was
\* started on the audio that is still loaded
C6_StaleCompletions ==
  [][/\ (regionsPluginRef' # regionsPluginRef /\ regionsPluginRef' # Null)
        => regionsPluginRef' = multitrackRef' /\ ~mt'[regionsPluginRef'].destroyed
     /\ (~tracksReady /\ tracksReady') => selectedFile' # NoFile
     /\ (trimmedAudioUrl' # trimmedAudioUrl /\ trimmedAudioUrl' # Null)
        => \E i \in 1..MaxTrims :
             /\ trims[i].pc = "read" /\ trims'[i].pc = "deleteInput"
             /\ trims[i].src = audioUrl]_vars

\* C7: no file is selected while a reset's deferred clearing of the media URL
\* is still pending, and a selected file always has its media URL
C7_LoadAfterReset ==
  /\ resetPending > 0 => selectedFile = NoFile
  /\ selectedFile # NoFile => videoUrl # Null

InRange(r) == 0 <= r.start /\ r.start <= r.end /\ r.end <= duration

\* C8: every region of the list and of the plugin has 0 <= start <= end <= duration
C8_RegionsInRange ==
  /\ \A i \in 1..Len(regions) : InRange(regions[i])
  /\ \A i \in 1..Len(pluginRegions) : InRange(pluginRegions[i])

C10_AddRegionNotReady ==
  [][(addRegion /\ regionsPluginRef = Null)
     => /\ calls' = << <<"alert", 0>> >>
        /\ UNCHANGED <<regions, selectedRegion, pluginRegions, error>>]_vars

\* addRegion has just alerted with regions in the list and no region engine
C10_Witness ==
  /\ calls = << <<"alert", 0>> >>
  /\ regionsPluginRef = Null
  /\ Len(regions) > 0

\* clamp(x, lo, hi)
Clamp(x, lo, hi) == IF x < lo THEN lo ELSE IF x > hi THEN hi ELSE x

\* the values updateRegion is called with
UpdateValues == EditValues \cup {regions[i].start : i \in 1..Len(regions)}
                           \cup {regions[i].end : i \in 1..Len(regions)}

\* C11: updateRegion(id, s, e) for a region id of the list always takes
\* effect: afterwards the region has start = clamp(s, 0, duration) and
\* end = clamp(e, start, duration) in the list and in the plugin, and the
\* other regions are unchanged
C11_UpdateRegion ==
  [][\A i \in 1..Len(regions), s, e \in UpdateValues :
       updateRegionTime(regions[i].id, s, e)
       => LET id == regions[i].id
              newStart == Clamp(s, 0, duration)
              newEnd == Clamp(e, newStart, duration)
          IN /\ Len(regions') = Len(regions)
             /\ \A j \in 1..Len(regions) :
                  IF regions[j].id = id
                  THEN regions'[j] = [regions[j] EXCEPT !.start = newStart, !.end = newEnd]
                  ELSE regions'[j] = regions[j]
             /\ Len(pluginRegions') = Len(pluginRegions)
             /\ \E k \in 1..Len(pluginRegions') :
                  /\ pluginRegions'[k].id = id
                  /\ pluginRegions'[k].start = newStart
                  /\ pluginRegions'[k].end = newEnd
                  /\ \A j \in 1..Len(pluginRegions) :
                       j # k => pluginRegions'[j] = pluginRegions[j]]_vars

\* C12: deleteRegion(id) removes the region with that id from the plugin and
\* from the list, clears the selection iff that region was selected and
\* leaves the other regions unchanged; clearAll empties both stores and
\* unsets the selection; removeRegion(id) of the voice page removes the
\* region from its plugin and its list
C12_DeleteRegion ==
  [][/\ \A i \in 1..Len(regions) :
          deleteRegion(regions[i].id)
          => LET id == regions[i].id IN
             /\ regions' = SelectSeq(regions, LAMBDA r : r.id # id)
             /\ pluginRegions' = SelectSeq(pluginRegions, LAMBDA r : r.id # id)
             /\ Len(regions') = Len(regions) - 1
             /\ Len(pluginRegions') = Len(pluginRegions) - 1
             /\ selectedRegion' = (IF selectedRegion = id THEN Null ELSE selectedRegion)
     /\ clearAllRegions
          => regions' = <<>> /\ pluginRegions' = <<>> /\ selectedRegion' = Null
     /\ \A i \in 1..Len(voiceRegions) :
          removeRegion(voiceRegions[i].id)
          => LET id == voiceRegions[i].id IN
             /\ voiceRegions' = SelectSeq(voiceRegions, LAMBDA r : r.id # id)
             /\ wsRegions' = SelectSeq(wsRegions, LAMBDA r : r.id # id)
             /\ Len(voiceRegions') = Len(voiceRegions) - 1]_vars

\* the ids of a region list, in list order
Ids(list) == [j \in 1..Len(list) |-> list[j].id]
IdSet(list) == {list[j].id : j \in 1..Len(list)}

\* new is old with regions updated in place, with one region added last, or
\* with regions taken out
KeepsOrder(old, new) ==
  \/ Ids(new) = Ids(old)
  \/ Len(new) = Len(old) + 1 /\ Ids(SubSeq(new, 1, Len(old))) = Ids(old)
  \/ \E j \in 1..Len(old) : Ids(new) = Ids(Without(old, j))
  \/ \E id \in IdSet(old) : Ids(new) = Ids(FilterOut(old, id))
  \/ new = <<>>

\* C13: the region lists stay in creation order: a step keeps the regions
\* that remain in their order and puts a new region last, and the plan a trim
\* starts with lists the regions in the order of the list
C13_CreationOrder ==
  [][/\ KeepsOrder(regions, regions')
     /\ (addRegion /\ regionsPluginRef # Null)
          => Ids(regions') = Ids(regions) \o <<now>>
     /\ \/ KeepsOrder(voiceRegions, voiceRegions')
        \/ wsRegions = <<>> /\ Len(wsRegions') = 1 /\ voiceRegions' = wsRegions'
     /\ \A i \in 1..MaxTrims :
          (trims[i].src = Null /\ trims'[i].src # Null)
          => /\ Len(trims'[i].plan.extract) = Len(voiceRegions)
             /\ \A k \in 1..Len(voiceRegions) :
                  /\ trims'[i].plan.extract[k].start = voiceRegions[k].start
                  /\ trims'[i].plan.extract[k].end = voiceRegions[k].end]_vars

\* a list of two regions with different ids that were added at different
\* times, the later one behind the earlier one although it starts earlier
C13_Witness ==
  /\ Len(regions) = 2
  /\ regions[1].id < regions[2].id
  /\ regions[1].start > regions[2].start
  /\ pluginRegions = regions

\* C14: the plan of a trim over the list r_1..r_n has exactly n extractions,
\* the i-th with the boundaries of r_i, and one concatenation of the n
\* outputs in that order; the published artifact is the result of that plan
C14_TrimPlan ==
  [][\A i \in 1..MaxTrims :
       /\ (trims[i].src = Null /\ trims'[i].src # Null /\ Len(voiceRegions) > 0)
            => LET plan == trims'[i].plan
                   n == Len(voiceRegions)
               IN /\ Len(plan.extract) = n
                  /\ \A k \in 1..n :
                       /\ plan.extract[k].start = voiceRegions[k].start
                       /\ plan.extract[k].end = voiceRegions[k].end
                       /\ plan.concat.inputs[k] = plan.extract[k].out
                  /\ \A k, l \in 1..n : k # l => plan.extract[k].out # plan.extract[l].out
                  /\ Len(plan.concat.inputs) = n
                  /\ plan.concat.n = n
       /\ (trims[i].pc = "read" /\ trims'[i].pc = "deleteInput")
            => artifact' = trims[i].plan]_vars

\* a published artifact made of two overlapping regions, the first one
\* starting after the second: two extractions in list order, joined in that order
C14_Witness ==
  /\ trimmedAudioUrl # Null
  /\ Len(artifact.extract) = 2
  /\ artifact.extract[1].start = 50 /\ artifact.extract[1].end = 70
  /\ artifact.extract[2].start = 0 /\ artifact.extract[2].end = 60
  /\ artifact.concat = [inputs |-> <<0, 1>>, n |-> 2]

\* C15: trimAudio with an empty region list sets the error and does nothing
\* else: no plan is taken, no executor is created, loaded or called, no file
\* is written, no artifact is published and isProcessing stays as it was
C15_EmptyTrim ==
  [][\A i \in 1..MaxTrims :
       (trimAudio(i) /\ Len(voiceRegions) = 0)
       => /\ voiceError' = "Please select an audio file and create regions to trim"
          /\ UNCHANGED <<trims, ffmpegs, ffmpegRef, isProcessing, trimmedAudioUrl,
                         artifact, urlCount>>]_vars

\* an empty trim has just been refused on a loaded audio file
C15_Witness ==
  /\ voiceError = "Please select an audio file and create regions to trim"
  /\ audioUrl # Null /\ wavesurferRef # Null /\ Len(voiceRegions) = 0
  /\ ~isProcessing /\ trimmedAudioUrl = Null
  /\ \A i \in 1..MaxTrims : trims[i] = NoTrim
  /\ \A k \in 1..MaxFFmpegs : ffmpegs[k] = NoFFmpeg

\* the trimAudio runs that have started and not ended
InFlight == {i \in 1..MaxTrims : trims[i].pc # "idle"}

\* C16: at most one trim is in flight at any time, the time the executor of
\* the first is still loading included
C16_SingleTrim == Cardinality(InFlight) <= 1

\* C17: a trim that ends, by the empty-list guard, by a failed executor
\* load, by a failed executor call or by success, leaves isProcessing false;
\* isProcessing is false whenever no trim is in flight, and a trim that
\* waits for its executor waits for a load that is still to settle
C17_ProcessingReset ==
  [][/\ \A i \in 1..MaxTrims :
          /\ (trims[i].pc # "idle" /\ trims'[i].pc = "idle") => ~isProcessing'
          /\ (trimAudio(i) /\ NothingToTrim) => ~isProcessing'
          /\ trims'[i].pc = "init" => ffmpegs'[trims'[i].inst].state = "loading"
     /\ (\A i \in 1..MaxTrims : trims'[i].pc = "idle") => ~isProcessing']_vars

\* a trim has failed in an executor call after it had raised the flag, and
\* the flag is down again
C17_Witness ==
  /\ voiceError = "Failed to trim audio"
  /\ ~isProcessing
  /\ \E i \in 1..MaxTrims : trims[i].src # Null /\ trims[i].pc = "idle"
  /\ InFlight = {}

\* positions of the calls of operation op on engine g in the handler's call log
CallsOf(op, g) == {k \in 1..Len(calls) : calls[k] = <<op, g>>}

\* C18: a reset of a session whose engine is playing pauses that engine
\* before it destroys it, and every reset leaves isPlaying false, currentTime
\* and duration 0, tracksReady false, no regions, no selection, and both the
\* engine handle and the regions-plugin handle unset.
C18_Reset ==
  [][resetUpload =>
       /\ (multitrackRef # Null /\ mt[multitrackRef].playing) =>
            /\ mt'[multitrackRef].destroyed
            /\ \E kp \in 1..Len(calls') : \E kd \in 1..Len(calls') :
                 /\ calls'[kp] = <<"pause", multitrackRef>>
                 /\ calls'[kd] = <<"destroy", multitrackRef>>
                 /\ kp < kd
            /\ \A kp \in 1..Len(calls') : \A kd \in 1..Len(calls') :
                 (/\ calls'[kp] = <<"pause", multitrackRef>>
                  /\ calls'[kd] = <<"destroy", multitrackRef>>) => kp < kd
       /\ ~isPlaying' /\ currentTime' = 0 /\ duration' = 0 /\ ~tracksReady'
       /\ regions' = <<>> /\ selectedRegion' = Null
       /\ multitrackRef' = Null /\ regionsPluginRef' = Null]_vars

\* a reset has just paused and then destroyed a playing engine and reset the video
C18_Witness ==
  /\ \E g \in Gens :
       /\ CallsOf("pause", g) # {} /\ CallsOf("destroy", g) # {}
       /\ mt[g].destroyed
  /\ \E k \in 1..Len(calls) : calls[k][1] = "video.pause"
  /\ selectedFile = NoFile /\ multitrackRef = Null /\ regionsPluginRef = Null
  /\ ~isPlaying /\ currentTime = 0 /\ duration = 0 /\ ~tracksReady
  /\ regions = <<>> /\ selectedRegion = Null

\* the handler that just ran let an exception escape
Propagated == \E k \in 1..Len(calls) : calls[k][1] = "throw"

\* C19: a pause or destroy that throws during a teardown (reset of either
\* page, or the effect's cleanup) is caught and does not escape the handler,
\* and the teardown still completes: the handles are unset, the object URLs
\* are revoked, and the session state is reset.
C19_TeardownCompletes ==
  [][/\ ((\E p \in ResetThrowPoints : resetUploadThrows(p)) \/ UnmountThrows) =>
          /\ ~Propagated'
          /\ multitrackRef' = Null /\ regionsPluginRef' = Null
     /\ (\E p \in ResetThrowPoints : resetUploadThrows(p)) =>
          /\ videoUrl # Null => videoUrl \in revoked'
          /\ selectedFile' = NoFile /\ ~isPlaying' /\ currentTime' = 0 /\ duration' = 0
          /\ ~tracksReady' /\ regions' = <<>> /\ selectedRegion' = Null
     /\ voiceResetUploadThrows =>
          /\ ~Propagated'
          /\ wavesurferRef' = Null /\ voiceRegionsPluginRef' = Null
          /\ ({audioUrl, trimmedAudioUrl} \ {Null}) \subseteq revoked'
          /\ voiceSelectedFile' = NoFile /\ voiceRegions' = <<>> /\ audioUrl' = Null
          /\ trimmedAudioUrl' = Null]_vars

\* C20: a volume change of track id to v, from the track's slider or from a
\* volume-change notification of the engine, stores min(max(v, 0), 1); every
\* stored volume stays within [0, 1]; storing the same volume twice gives the
\* state that storing it once gives.
C20_VolumeClamped ==
  [][/\ \A id \in TrackIds :
          /\ \A v \in SliderVolumes :
               updateTrackVolume(id, v) => tracks'[id].volume = ClampedVolume(v)
          /\ \A v \in EngineVolumes : \A g \in Gens :
               VolumeChange(g, id, v) => tracks'[id].volume = ClampedVolume(v)
          /\ \A v \in SliderVolumes \cup EngineVolumes :
               SetTrackVolume(SetTrackVolume(tracks, id, v), id, v)
                 = SetTrackVolume(tracks, id, v)
     /\ \A id \in TrackIds : tracks'[id].volume \in 0..100]_vars

\* C21: a start-position change for a track that is not draggable leaves
\* every track as it was, so the anchor track (id 0) always has startPosition
\* 0 and draggable false; for a draggable track the stored start position
\* is max(0, t).
C21_StartPosition ==
  [][/\ \A g \in Gens, id \in TrackIds, t \in EnginePositions :
          StartPositionChange(g, id, t) =>
            /\ ~tracks[id].draggable => tracks' = tracks
            /\ tracks[id].draggable => tracks'[id].startPosition = Max(0, t)
            /\ tracks'[id].startPosition = GuardedStartPosition(tracks[id], t)
     /\ tracks'[0].startPosition = 0 /\ ~tracks'[0].draggable]_vars

\* C22: a selected file is accepted exactly when its type is in the accepted
\* set and its size is at most the ceiling (a file of exactly the ceiling
\* size is accepted); a rejected file sets the error message and leaves the
\* selected file, the media URL and the session and engine state unchanged.
C22_FileValidation ==
  [][/\ \A f \in VideoFiles :
          handleFileSelect(f) =>
            IF f.type \in VALID_VIDEO_TYPES /\ f.size <= MaxVideoSize
            THEN selectedFile' = f /\ videoUrl' = urlCount + 1 /\ error' = ""
            ELSE /\ error' # ""
                 /\ UNCHANGED <<selectedFile, videoUrl, isPlaying, currentTime, duration,
                                zoom, tracks, tracksReady, regions, selectedRegion, upRefs,
                                gen, cur, eff, upEnv, voiceVars>>
     /\ \A f \in AudioFiles :
          voiceHandleFileSelect(f) =>
            IF f.type \in VALID_AUDIO_TYPES /\ f.size <= MaxAudioSize
            THEN voiceSelectedFile' = f /\ audioUrl' = urlCount + 1 /\ voiceError' = ""
            ELSE /\ voiceError' # ""
                 /\ UNCHANGED <<voiceSelectedFile, audioUrl, voiceRegions, isProcessing,
                                trimmedAudioUrl, wavesurferRef, voiceRegionsPluginRef,
                                ffmpegRef, ws, wsRegions, ffmpegs, trims, artifact, gen, cur,
                                eff, urlCount, revoked, upOnly>>]_vars

\* a file of exactly the maximum size is loaded with its engine, and a larger
\* file picked after it has just been turned away
C22_Witness ==
  /\ selectedFile = ShortVideo /\ selectedFile.size = MaxVideoSize
  /\ error = "File is too large"
  /\ videoUrl # Null /\ multitrackRef # Null
  /\ calls = <<>>

\* C23: the ids of the regions in the list are pairwise distinct in every
\* reachable state, whatever the clock readings at which regions were added.
C23_DistinctIds ==
  \A i \in 1..Len(regions) : \A j \in 1..Len(regions) :
    i # j => regions[i].id # regions[j].id

\* C24: tracksReady is true only while the handle holds an engine all of
\* whose tracks have signalled canplay; after a rebuild (zoom change or new
\* file) it is false until the tracks of the new engine have all loaded.
C24_TracksReady ==
  tracksReady =>
    /\ multitrackRef # Null
    /\ mt[multitrackRef].created /\ ~mt[multitrackRef].destroyed
    /\ eff[multitrackRef].tracksLoaded = TotalTracks

\* the session is set up: the current run's imports resolved and its engine
\* is the one the handle holds
SetUp ==
  /\ mounted /\ selectedFile # NoFile /\ videoUrl # Null
  /\ cur # Null /\ multitrackRef = cur
  /\ mt[cur].created /\ ~mt[cur].destroyed

\* C25: setup publishes the follower's duration if its metadata is there,
\* else the first loadedmetadata after setup publishes it; whenever a session
\* is set up and the follower's metadata is loaded, the published duration
\* is the duration of the current follower.
C25_Duration ==
  [][/\ \A g \in Gens :
          (ImportDone(g) /\ ~CancelledAfterImport(g)) =>
            IF VideoRef /\ video.meta THEN duration' = video.dur
            ELSE duration' = duration /\ (VideoRef => metaListener')
     /\ (loadedmetadata /\ SetUp) => duration' = video.dur
     /\ (SetUp' /\ video'.meta) => duration' = video'.dur]_vars

\* a second file is set up: its metadata loaded and its duration is published
C25_Witness ==
  /\ SetUp /\ video.meta
  /\ urlCount = 2 /\ selectedFile = ShortVideo /\ video.src = videoUrl
  /\ duration = ShortVideo.dur

\* the handler that just ran told an engine to change something
Commanded(log) == \E k \in 1..Len(log) : log[k][1] \in {"setVolume", "setTime", "play", "pause"}

\* C26: a notification of the engine (volume or start position) never makes
\* the page issue a command to the engine; the notification of a volume the
\* page itself commanded leaves that volume in the track list and leaves one
\* notification fewer to deliver, so no command/notification loop exists.
C26_NoEchoLoop ==
  [][/\ \A g \in Gens :
          VolumeEcho(g) =>
            /\ ~Commanded(calls')
            /\ tracks'[Head(mt[g].echo)[1]].volume = Head(mt[g].echo)[2]
            /\ Len(mt'[g].echo) = Len(mt[g].echo) - 1
            /\ \A h \in Gens \ {g} : mt'[h] = mt[h]
     /\ (Commanded(calls') \/ mt' # mt) =>
          \A g \in Gens, id \in TrackIds :
            /\ \A v \in EngineVolumes : ~VolumeChange(g, id, v)
            /\ \A t \in EnginePositions : ~StartPositionChange(g, id, t)]_vars

\* the engine has just notified the page of a volume the slider had set, and
\* has nothing left to deliver
C26_Witness ==
  \E g \in Gens :
    /\ calls = << <<"on.volume-change", g>> >>
    /\ multitrackRef = g /\ mt[g].echo = <<>>
    /\ \E id \in TrackIds : tracks[id].volume \in SliderVolumes

\* the regions a store holds, as id with start and end
Held(store) ==
  {[id |-> store[k].id, start |-> store[k].start, end |-> store[k].end] : k \in 1..Len(store)}

\* C27: whenever the regions plugin is attached, the region list of the page
\* and the plugin hold the same region ids with the same start and end, also
\* after the engine was rebuilt (zoom change or new file) while regions exist.
C27_StoresAgree ==
  regionsPluginRef # Null => Held(regions) = Held(pluginRegions)

\* C28: the processing flag is true in every state in which a trim is in
\* flight, from the call of trimAudio with regions until that call ends, also
\* while the executor is being loaded and while another trim still runs.
C28_ProcessingWhileInFlight ==
  InFlight # {} => isProcessing

\* C29: when a trim ends, by success or by a failure of the write, the run
\* or the read, the executor's storage holds neither input.wav nor
\* output.wav, so every trim starts on storage without files of an earlier one.
C29_StorageCleared ==
  [][\A i \in 1..MaxTrims :
       /\ (trims[i].pc \in {"write", "exec", "read", "deleteInput", "deleteOutput"}
           /\ trims'[i].pc = "idle") =>
            ffmpegs'[trims[i].inst].files \cap {"input.wav", "output.wav"} = {}
       /\ (trims[i].pc = "idle" /\ trims'[i].pc = "write") =>
            ffmpegs[trims'[i].inst].files = {}]_vars

\* the object URLs the state of the pages refers to
Referenced == {videoUrl, audioUrl, trimmedAudioUrl} \ {Null}

\* C30: every object URL that was created for a selected file or for a trim
\* output and that the state no longer refers to has been revoked.
C30_UrlsRevoked ==
  \A u \in 1..urlCount : u \in Referenced \/ u \in revoked

====
